---- MODULE Spec2Model ----
(***************************************************************************)
(* Model of the reward-metrics aggregator compute_reward_metrics           *)
(* (src/test_reward_metrics.py).  One call is a loop over the items of the *)
(* input mapping; every loop iteration is one action.                      *)
(*                                                                         *)
(* Numbers.  The code computes on IEEE-754 binary floating point.  The     *)
(* model keeps the arithmetic (round to nearest, ties to even, overflow to *)
(* infinity, NaN) and shrinks the format: a finite value is an integer     *)
(* m * 2^e with m < 2^Precision and 0 <= e <= MaxExp, so the spacing of    *)
(* the smallest binade is 1.                                               *)
(*                                                                         *)
(* Python ints and floats are one kind of number (np.array gives both a    *)
(* number dtype and np.mean works in float64), and a tensor's elements are *)
(* numbers of the same format.  The sum of np.mean is the left-to-right    *)
(* running sum numpy computes for fewer than 8 elements.                   *)
(*                                                                         *)
(* numpy is modelled as numpy >= 1.24: np.array of a list that mixes       *)
(* scalars and sequences raises ValueError.  The values of the mapping are *)
(* Python lists; a tensor occurs only in a series whose first element is a *)
(* tensor.                                                                 *)
(*                                                                         *)
(* Specifications.                                                         *)
(*   Spec          one call of compute_reward_metrics                      *)
(*   SpecCalls     a sequence of calls, as test_reward_metrics makes them  *)
(*   SpecThreads   two calls whose loop iterations interleave              *)
(*   SpecCopy      compute_reward_metrics and then its standalone copy     *)
(*                 (src/complete_test.py) on the same mapping              *)
(*   SpecPipeline  a batch is scored and collected, then aggregated: by    *)
(*                 src/complete_test.py (standalone copy) or by            *)
(*                 src/test_reward_manager_integration.py (inline loop     *)
(*                 over the statistics module, CPython >= 3.11, where      *)
(*                 stdev rounds the square root of the exact variance)     *)
(***************************************************************************)
EXTENDS Integers, Sequences, FiniteSets, TLC

\* ------------------------------------------------------------ bounds
\* bits of the significand of the model's floating-point format
Precision == 3
\* largest exponent of the model's floating-point format
MaxExp == 3
\* longest series of scalar observations
MaxLen == 3
\* longest inner list / tensor of one observation
MaxInner == 2

\* ------------------------------------------------------------ values
RECURSIVE Pow2(_)
Pow2(n) == IF n = 0 THEN 1 ELSE 2 * Pow2(n - 1)

Abs(x) == IF x < 0 THEN -x ELSE x

\* the largest finite float
MaxFinite == (Pow2(Precision) - 1) * Pow2(MaxExp)

\* the finite non-negative floats
Representable == {m * Pow2(e) : m \in 0..(Pow2(Precision) - 1), e \in 0..MaxExp}

\* Python scalars: [k |-> kind, v |-> payload]
Fin(v) == [k |-> "float", v |-> v]
Inf(s) == [k |-> "inf", v |-> s]
NaN == [k |-> "nan", v |-> 0]
Str == [k |-> "str", v |-> 0]
Bool(b) == [k |-> "bool", v |-> b]

\* one per-sample observation: a scalar, a list of scalars, a torch tensor
Scalar(x) == [shape |-> "scalar", items |-> <<x>>]
List(xs) == [shape |-> "list", items |-> xs]
Tensor(xs) == [shape |-> "tensor", items |-> xs]

\* ------------------------------------------------------------ floating point
\* nearest float to num/den >= 0, ties to even; -1 on overflow
RoundMag(num, den) ==
    IF num >= den * Pow2(Precision + MaxExp) THEN -1
    ELSE LET e == CHOOSE x \in 0..MaxExp :
                      /\ num < den * Pow2(Precision + x)
                      /\ (x = 0 \/ num >= den * Pow2(Precision + x - 1))
             step == den * Pow2(e)
             q == num \div step
             r == num % step
             up == 2 * r > step \/ (2 * r = step /\ q % 2 = 1)
             val == (IF up THEN q + 1 ELSE q) * Pow2(e)
         IN IF val > MaxFinite THEN -1 ELSE val

\* the float nearest to the rational num/den (den > 0)
FRound(num, den) ==
    LET mag == RoundMag(Abs(num), den)
        sgn == IF num < 0 THEN -1 ELSE 1
    IN IF mag = -1 THEN Inf(sgn) ELSE Fin(sgn * mag)

FNeg(x) == IF x.k = "nan" THEN NaN ELSE [k |-> x.k, v |-> -x.v]

FAdd(x, y) ==
    IF x.k = "nan" \/ y.k = "nan" THEN NaN
    ELSE IF x.k = "inf" /\ y.k = "inf" THEN (IF x.v = y.v THEN x ELSE NaN)
    ELSE IF x.k = "inf" THEN x
    ELSE IF y.k = "inf" THEN y
    ELSE FRound(x.v + y.v, 1)

FSub(x, y) == FAdd(x, FNeg(y))

FSign(x) == IF x.v < 0 THEN -1 ELSE 1

FMul(x, y) ==
    IF x.k = "nan" \/ y.k = "nan" THEN NaN
    ELSE IF x.k = "inf" \/ y.k = "inf"
         THEN (IF x.v = 0 \/ y.v = 0 THEN NaN ELSE Inf(FSign(x) * FSign(y)))
    ELSE FRound(x.v * y.v, 1)

\* x / n for a positive integer n
FDiv(x, n) ==
    IF x.k = "float" THEN FRound(x.v, n) ELSE x

\* correctly rounded square root
FSqrt(x) ==
    IF x.k = "nan" THEN NaN
    ELSE IF x.v < 0 THEN NaN
    ELSE IF x.k = "inf" THEN x
    ELSE LET below == {r \in Representable : r * r <= x.v}
             above == {r \in Representable : r * r > x.v}
             lo == CHOOSE r \in below : \A s \in below : s <= r
         IN IF above = {} THEN Fin(lo)
            ELSE LET hi == CHOOSE r \in above : \A s \in above : r <= s
                     mid2 == (lo + hi) * (lo + hi)
                 IN IF 4 * x.v < mid2 THEN Fin(lo)
                    ELSE IF 4 * x.v > mid2 THEN Fin(hi)
                    ELSE IF (lo \div (hi - lo)) % 2 = 0 THEN Fin(lo) ELSE Fin(hi)

FLeq(x, y) ==
    /\ x.k # "nan" /\ y.k # "nan"
    /\ \/ x.k = "inf" /\ x.v = -1
       \/ y.k = "inf" /\ y.v = 1
       \/ x.k = "float" /\ y.k = "float" /\ x.v <= y.v

IsFinite(x) == x.k = "float"

\* ------------------------------------------------------------ numpy
RECURSIVE Concat(_)
\* [item for sublist in seqs for item in sublist]
Concat(seqs) == IF seqs = <<>> THEN <<>> ELSE Head(seqs) \o Concat(Tail(seqs))

Raised(exc) == [raised |-> TRUE, exc |-> exc, dtype |-> "none", data |-> <<>>]
Array(dtype, data) == [raised |-> FALSE, exc |-> "none", dtype |-> dtype, data |-> data]

\* a Python scalar as an element of a float64 array
AsFloat(x) == IF x.k = "bool" THEN Fin(x.v) ELSE x

\* np.array(items) for a list of Python scalars: the common dtype
NpArray(items) ==
    IF \E i \in 1..Len(items) : items[i].k = "str" THEN Array("str", <<>>)
    ELSE IF items # <<>> /\ \A i \in 1..Len(items) : items[i].k = "bool"
         THEN Array("bool", <<>>)
    ELSE Array("float64", [i \in 1..Len(items) |-> AsFloat(items[i])])

\* a flattening that keeps only the first inner element of every sample
IterItemsFirst(obs) ==
    IF obs.shape = "scalar" THEN <<Str>>
    ELSE IF obs.items = <<>> THEN <<>> ELSE <<obs.items[1]>>

\* iterating one element of the series in the nested-list comprehension
IterItems(obs) == IF obs.shape = "scalar" THEN <<Str>> ELSE obs.items
ObsItems(obs) == obs.items
ObsScalar(obs) == obs.items[1]

\* np.issubdtype(dtype, np.number)
IsNumberDtype(dtype) == dtype = "float64"

\* a flattening that looks at the shape of every sample, not of the first
ToArrayPerSample(values) ==
    NpArray(Concat([i \in 1..Len(values) |-> ObsItems(values[i])]))

\* lines 25-31: the flattening strategy, chosen from values[0]
ToArray(values) ==
    CASE values[1].shape = "tensor" ->
           IF \A i \in 1..Len(values) : values[i].shape = "tensor"
           THEN Array("float64", Concat([i \in 1..Len(values) |-> ObsItems(values[i])]))
           ELSE Raised("AttributeError")
      [] values[1].shape = "list" ->
           IF \E i \in 1..Len(values) :
                  values[i].shape = "scalar" /\ ObsScalar(values[i]).k # "str"
           THEN Raised("TypeError")
           ELSE NpArray(Concat([i \in 1..Len(values) |-> IterItems(values[i])]))
      [] values[1].shape = "scalar" ->
           IF \E i \in 1..Len(values) : values[i].shape = "list"
           THEN Raised("ValueError")
           ELSE NpArray([i \in 1..Len(values) |-> ObsScalar(values[i])])

\* values_array[np.isfinite(values_array)]
FiniteOnly(data) == SelectSeq(data, IsFinite)

\* lines 20-40: the finite numeric elements a series is summarized over
\* (none when the series is skipped)
Retained(vals) ==
    IF vals = <<>> THEN <<>>
    ELSE LET a == ToArray(vals)
         IN IF a.raised \/ ~IsNumberDtype(a.dtype) THEN <<>> ELSE FiniteOnly(a.data)

RECURSIVE SumFrom(_, _)
\* np.add.reduce: the running sum, rounded after every addition
SumFrom(acc, xs) == IF xs = <<>> THEN acc ELSE SumFrom(FAdd(acc, Head(xs)), Tail(xs))
NpSum(xs) == SumFrom(Head(xs), Tail(xs))

NpMean(xs) == FDiv(NpSum(xs), Len(xs))
\* a max that repeats the mean
NpMaxIsMean(xs) == NpMean(xs)
NpMax(xs) == CHOOSE x \in {xs[i] : i \in 1..Len(xs)} : \A j \in 1..Len(xs) : FLeq(xs[j], x)
NpMin(xs) == CHOOSE x \in {xs[i] : i \in 1..Len(xs)} : \A j \in 1..Len(xs) : FLeq(x, xs[j])
SqDev(xs) == LET m == NpMean(xs)
             IN [i \in 1..Len(xs) |-> LET d == FSub(xs[i], m) IN FMul(d, d)]
\* np.std: sqrt(mean(|x - mean|^2)), ddof = 0
NpStd(xs) == FSqrt(FDiv(NpSum(SqDev(xs)), Len(xs)))

\* ------------------------------------------------------------ the report
\* keys written under another namespace
MetricKeyOtherPrefix(key, stat) == <<"rewards", key, stat>>

MetricKey(key, stat) == <<"reward", key, stat>>

\* entries with a std of every series, a single point included
EntriesAlwaysStd(key, arr) ==
    (MetricKey(key, "std") :> NpStd(arr))
    @@ (MetricKey(key, "mean") :> NpMean(arr))
    @@ (MetricKey(key, "max") :> NpMax(arr))
    @@ (MetricKey(key, "min") :> NpMin(arr))

\* entries whose min is written only with the std, for several points
EntriesMinWithStd(key, arr) ==
    LET base == (MetricKey(key, "mean") :> NpMean(arr))
                @@ (MetricKey(key, "max") :> NpMax(arr))
    IN IF Len(arr) > 1
       THEN (MetricKey(key, "std") :> NpStd(arr))
            @@ (MetricKey(key, "min") :> NpMin(arr)) @@ base
       ELSE base

\* lines 43-48: the entries written for one signal
Entries(key, arr) ==
    LET base == (MetricKey(key, "mean") :> NpMean(arr))
                @@ (MetricKey(key, "max") :> NpMax(arr))
                @@ (MetricKey(key, "min") :> NpMin(arr))
    IN IF Len(arr) > 1 THEN (MetricKey(key, "std") :> NpStd(arr)) @@ base ELSE base

\* ------------------------------------------------------------ state
VARIABLES
    reward_extra_infos_dict,  \* the argument: its items() in order, <<key, values>>
    pos,                      \* number of items the for loop has consumed
    metrics,                  \* the report under construction
    warnings,                 \* the lines printed by the except branch
    pc,                       \* "loop", "returned" or "raised"
    done,                     \* the calls that returned before this one
    call2,                    \* a call of the aggregator in a second thread
    pipeline,                 \* the script that scores and collects a batch
    all_results,              \* the results of the samples scored so far
    reward_extra_info,        \* the mapping collected from the results
    agg                       \* the aggregation of reward_extra_info

vars == <<reward_extra_infos_dict, pos, metrics, warnings, pc, done, call2,
          pipeline, all_results, reward_extra_info, agg>>

\* the state outside one call of compute_reward_metrics
others == <<done, call2, pipeline, all_results, reward_extra_info, agg>>
\* the state of the scripts that collect and aggregate a batch
scripts == <<pipeline, all_results, reward_extra_info, agg>>

NumItems == Len(reward_extra_infos_dict)
key == reward_extra_infos_dict[pos + 1][1]
values == reward_extra_infos_dict[pos + 1][2]
InLoop == pc = "loop" /\ pos < NumItems

Continue ==
    /\ pos' = pos + 1
    /\ UNCHANGED <<reward_extra_infos_dict, pc>>

\* an empty series that ends the loop instead of continuing it
SkipEmptyBreaks ==
    /\ InLoop
    /\ values = <<>>
    /\ pos' = NumItems
    /\ UNCHANGED <<reward_extra_infos_dict, pc, metrics, warnings>>

\* line 20: if not values: continue
SkipEmpty ==
    /\ InLoop
    /\ values = <<>>
    /\ Continue
    /\ UNCHANGED <<metrics, warnings>>

\* line 34: not a number dtype, or an empty array
SkipNonNumeric ==
    /\ InLoop
    /\ values # <<>>
    /\ LET a == ToArray(values)
       IN /\ ~a.raised
          /\ ~IsNumberDtype(a.dtype) \/ Len(a.data) = 0
    /\ Continue
    /\ UNCHANGED <<metrics, warnings>>

\* line 39: nothing finite is left
SkipNonFinite ==
    /\ InLoop
    /\ values # <<>>
    /\ LET a == ToArray(values)
       IN /\ ~a.raised
          /\ IsNumberDtype(a.dtype) /\ Len(a.data) # 0
          /\ FiniteOnly(a.data) = <<>>
    /\ Continue
    /\ UNCHANGED <<metrics, warnings>>

\* lines 43-48: the statistics of the finite elements
Summarize ==
    /\ InLoop
    /\ values # <<>>
    /\ LET a == ToArray(values)
       IN /\ ~a.raised
          /\ IsNumberDtype(a.dtype) /\ Len(a.data) # 0
          /\ FiniteOnly(a.data) # <<>>
    /\ metrics' = Entries(key, FiniteOnly(ToArray(values).data)) @@ metrics
    /\ Continue
    /\ UNCHANGED warnings

\* an exception that is not caught per signal
ExceptPropagates ==
    /\ InLoop
    /\ values # <<>>
    /\ ToArray(values).raised
    /\ pc' = "raised"
    /\ UNCHANGED <<reward_extra_infos_dict, pos, metrics, warnings>>

\* an except branch that swallows the exception without a warning
ExceptSilent ==
    /\ InLoop
    /\ values # <<>>
    /\ ToArray(values).raised
    /\ Continue
    /\ UNCHANGED <<metrics, warnings>>

\* lines 50-53: except Exception: print a warning, continue
Except ==
    /\ InLoop
    /\ values # <<>>
    /\ ToArray(values).raised
    /\ warnings' = Append(warnings, [key |-> key, cause |-> ToArray(values).exc])
    /\ Continue
    /\ UNCHANGED metrics

\* line 55: return metrics
Return ==
    /\ pc = "loop"
    /\ pos = NumItems
    /\ pc' = "returned"
    /\ UNCHANGED <<reward_extra_infos_dict, pos, metrics, warnings>>

\* ------------------------------------------------------------ inputs
SeqsUpTo(S, n) == UNION {[1..m -> S] : m \in 0..n}

InputFloats == {Fin(-2), Fin(1), Fin(6), Fin(MaxFinite)}
ScalarPool == InputFloats \cup {NaN, Inf(1), Inf(-1), Str, Bool(1)}
InnerPool == {Fin(1), Fin(6), NaN, Str}
TensorPool == {Fin(6), Inf(1)}

\* series of scalars
FlatSeries == {[i \in 1..Len(s) |-> Scalar(s[i])] : s \in SeqsUpTo(ScalarPool, MaxLen)}

ShapedPool == {Scalar(Fin(1)), Scalar(Str)}
              \cup {List(xs) : xs \in SeqsUpTo(InnerPool, MaxInner)}
              \cup {Tensor(xs) : xs \in SeqsUpTo(TensorPool, MaxInner)}

\* a tensor is only handled by the tensor branch (values[0] is a tensor)
Supported(s) ==
    \A i \in 1..Len(s) : s[i].shape = "tensor" => s[1].shape = "tensor"

\* series with list or tensor observations: a first sample, or a first and a
\* later sample
ShapedSeries ==
    {s \in {<<a>> : a \in ShapedPool} \cup {<<a, b>> : a, b \in ShapedPool} :
        Supported(s)}

AnySeries == FlatSeries \cup ShapedSeries

\* a second signal with an ordinary numeric series
OtherSeries == <<Scalar(Fin(1)), Scalar(Fin(6))>>

InputDicts ==
    {<<<<"sig", s>>>> : s \in AnySeries}
    \cup {<<<<"sig", s>>, <<"other", OtherSeries>>>> : s \in AnySeries}
    \cup {<<<<"other", OtherSeries>>, <<"sig", s>>>> : s \in AnySeries}
    \cup {<<>>}

\* line 17 at the entry of a call with argument d: metrics = {}
Enter(d) ==
    /\ reward_extra_infos_dict = d
    /\ pos = 0
    /\ metrics = <<>>
    /\ pc = "loop"

\* no second thread
NoCall == [dict |-> <<>>, pos |-> 0, metrics |-> <<>>, pc |-> "none"]

\* no aggregation of a collected mapping
NoAgg == [pos |-> 0, metrics |-> <<>>, printed |-> <<>>, pc |-> "idle"]

\* no batch is scored
NoScripts ==
    /\ pipeline = "none"
    /\ all_results = <<>>
    /\ reward_extra_info = <<>>
    /\ agg = NoAgg

\* one call of compute_reward_metrics in a fresh process
Init ==
    /\ \E d \in InputDicts : Enter(d)
    /\ warnings = <<>>
    /\ done = <<>>
    /\ call2 = NoCall
    /\ NoScripts

Next ==
    \/ SkipEmpty /\ UNCHANGED others
    \/ SkipNonNumeric /\ UNCHANGED others
    \/ SkipNonFinite /\ UNCHANGED others
    \/ Summarize /\ UNCHANGED others
    \/ Except /\ UNCHANGED others
    \/ Return /\ UNCHANGED others

Spec == Init /\ [][Next]_vars

\* ------------------------------------------------- a sequence of calls
MaxCalls == 3

\* the series [0.8, 0.9, 0.7, 0.85] of the test data, in ninths and rounded
\* to the model's format (which has no four values that close together)
ScenarioSeries == <<Scalar(Fin(7)), Scalar(Fin(8)), Scalar(Fin(6)), Scalar(Fin(8))>>

\* the mappings of test_reward_metrics: numeric signals, a mapping with a
\* text field, a single value, edge cases, the empty mapping
CallInputs ==
    {<<<<"length_score", ScenarioSeries>>>>,
     <<<<"sig", <<Scalar(Fin(1)), Scalar(Fin(6))>>>>, <<"other", OtherSeries>>>>,
     <<<<"sig", <<Scalar(Fin(6)), Scalar(NaN)>>>>>>,
     <<<<"text", <<Scalar(Str), Scalar(Str)>>>>, <<"sig", <<Scalar(Fin(6))>>>>>>,
     <<<<"other", OtherSeries>>, <<"sig", <<Scalar(Fin(6)), Scalar(Inf(1))>>>>>>,
     <<<<"sig", <<Scalar(Fin(6))>>>>>>,
     <<<<"empty_list", <<>>>>, <<"all_nan", <<Scalar(NaN), Scalar(NaN)>>>>,
       <<"ragged", <<Scalar(Fin(1)), List(<<Fin(1), Fin(6)>>)>>>>>>,
     <<>>}

\* a call that goes on with the report of the call before it
NextCallKeepsReport ==
    /\ pc = "returned"
    /\ Len(done) < MaxCalls - 1
    /\ done' = Append(done, [arg |-> reward_extra_infos_dict, report |-> metrics])
    /\ \E d \in CallInputs : reward_extra_infos_dict' = d
    /\ pos' = 0
    /\ pc' = "loop"
    /\ UNCHANGED <<metrics, warnings, call2>>
    /\ UNCHANGED scripts

\* the caller keeps the report that was returned and calls again: the new
\* call starts at line 17 with metrics = {}
NextCall ==
    /\ pc = "returned"
    /\ Len(done) < MaxCalls - 1
    /\ done' = Append(done, [arg |-> reward_extra_infos_dict, report |-> metrics])
    /\ \E d \in CallInputs : reward_extra_infos_dict' = d
    /\ pos' = 0
    /\ metrics' = <<>>
    /\ pc' = "loop"
    /\ UNCHANGED <<warnings, call2>>
    /\ UNCHANGED scripts

InitCalls ==
    /\ \E d \in CallInputs : Enter(d)
    /\ warnings = <<>>
    /\ done = <<>>
    /\ call2 = NoCall
    /\ NoScripts

NextCalls ==
    \/ SkipEmpty /\ UNCHANGED others
    \/ SkipNonNumeric /\ UNCHANGED others
    \/ SkipNonFinite /\ UNCHANGED others
    \/ Summarize /\ UNCHANGED others
    \/ Except /\ UNCHANGED others
    \/ Return /\ UNCHANGED others
    \/ NextCall

SpecCalls == InitCalls /\ [][NextCalls]_vars

\* ------------------------------------------------- two concurrent calls
\* lines 19-53 for one item of the mapping: the entries the iteration adds
\* to the report and the warning it prints
Iteration(k, vals) ==
    [entries |-> IF Retained(vals) = <<>> THEN <<>> ELSE Entries(k, Retained(vals)),
     warning |-> IF vals # <<>> /\ ToArray(vals).raised
                 THEN <<[key |-> k, cause |-> ToArray(vals).exc]>>
                 ELSE <<>>]

\* an iteration that writes to one report shared by the calls
Step2SharedReport ==
    /\ call2.pc = "loop"
    /\ call2.pos < Len(call2.dict)
    /\ LET item == call2.dict[call2.pos + 1]
           it == Iteration(item[1], item[2])
       IN /\ call2' = [call2 EXCEPT !.pos = @ + 1]
          /\ metrics' = it.entries @@ metrics
          /\ warnings' = warnings \o it.warning
    /\ UNCHANGED <<reward_extra_infos_dict, pos, pc, done>>
    /\ UNCHANGED scripts

\* one iteration of the second thread's loop: it reads its own argument and
\* writes its own local report; stdout is the one of the process
Step2 ==
    /\ call2.pc = "loop"
    /\ call2.pos < Len(call2.dict)
    /\ LET item == call2.dict[call2.pos + 1]
           it == Iteration(item[1], item[2])
       IN /\ call2' = [call2 EXCEPT !.pos = @ + 1, !.metrics = it.entries @@ @]
          /\ warnings' = warnings \o it.warning
    /\ UNCHANGED <<reward_extra_infos_dict, pos, metrics, pc, done>>
    /\ UNCHANGED scripts

\* line 55 in the second thread
Return2 ==
    /\ call2.pc = "loop"
    /\ call2.pos = Len(call2.dict)
    /\ call2' = [call2 EXCEPT !.pc = "returned"]
    /\ UNCHANGED <<reward_extra_infos_dict, pos, metrics, warnings, pc, done>>
    /\ UNCHANGED scripts

InitThreads ==
    /\ \E d \in CallInputs : Enter(d)
    /\ warnings = <<>>
    /\ done = <<>>
    /\ \E d \in CallInputs : call2 = [dict |-> d, pos |-> 0, metrics |-> <<>>, pc |-> "loop"]
    /\ NoScripts

NextThreads ==
    \/ SkipEmpty /\ UNCHANGED others
    \/ SkipNonNumeric /\ UNCHANGED others
    \/ SkipNonFinite /\ UNCHANGED others
    \/ Summarize /\ UNCHANGED others
    \/ Except /\ UNCHANGED others
    \/ Return /\ UNCHANGED others
    \/ Step2
    \/ Return2

SpecThreads == InitThreads /\ [][NextThreads]_vars

\* ------------------------------- complete_test.py: the standalone copy
\* np.max and np.min of an array that may hold a NaN
NanMax(xs) == IF \E i \in 1..Len(xs) : xs[i].k = "nan" THEN NaN ELSE NpMax(xs)
NanMin(xs) == IF \E i \in 1..Len(xs) : xs[i].k = "nan" THEN NaN ELSE NpMin(xs)

\* len(values_array), a Python int
IntVal(n) == [k |-> "int", v |-> n]

\* np.array(values, dtype=float) for a list of scalars or of lists: a string
\* that is no number, a ragged list or scalars mixed with lists raise
\* ValueError; lists of one length give a 2-D array, data in row order
StandaloneArray(vals) ==
    LET all == Concat([i \in 1..Len(vals) |-> ObsItems(vals[i])])
    IN IF \/ \E i \in 1..Len(all) : all[i].k = "str"
          \/ \E i, j \in 1..Len(vals) :
                 \/ vals[i].shape # vals[j].shape
                 \/ vals[i].shape = "list" /\ Len(vals[i].items) # Len(vals[j].items)
       THEN Raised("ValueError")
       ELSE Array("float64", [i \in 1..Len(all) |-> AsFloat(all[i])])

\* lines 21-42 for one item of the mapping: the entries the iteration adds
\* and the warning it prints.  np.mean and np.std of an array without
\* elements are NaN, np.min of it raises ValueError after both were stored.
StandaloneIteration(k, vals) ==
    LET a == StandaloneArray(vals)
    IN IF a.raised
       THEN [entries |-> <<>>, warning |-> <<[key |-> k, cause |-> a.exc]>>]
       ELSE IF vals = <<>>
       THEN [entries |-> <<>>, warning |-> <<>>]
       ELSE IF a.data = <<>>
       THEN [entries |-> (MetricKey(k, "mean") :> NaN) @@ (MetricKey(k, "std") :> NaN),
             warning |-> <<[key |-> k, cause |-> "ValueError"]>>]
       ELSE [entries |-> (MetricKey(k, "mean") :> NpMean(a.data))
                         @@ (MetricKey(k, "std") :> NpStd(a.data))
                         @@ (MetricKey(k, "min") :> NanMin(a.data))
                         @@ (MetricKey(k, "max") :> NanMax(a.data))
                         @@ (MetricKey(k, "count") :> IntVal(Len(vals))),
             warning |-> <<>>]

\* lines 16-17: if not reward_extra_info: return {}
StandaloneEmpty ==
    /\ agg.pc = "loop"
    /\ reward_extra_info = <<>>
    /\ agg' = [agg EXCEPT !.pc = "returned"]
    /\ UNCHANGED <<reward_extra_infos_dict, pos, metrics, warnings, pc, done, call2>>
    /\ UNCHANGED <<pipeline, all_results, reward_extra_info>>

\* lines 21-42: one iteration of the loop
StandaloneStep ==
    /\ agg.pc = "loop"
    /\ agg.pos < Len(reward_extra_info)
    /\ LET item == reward_extra_info[agg.pos + 1]
           it == StandaloneIteration(item[1], item[2])
       IN agg' = [agg EXCEPT !.pos = @ + 1,
                             !.metrics = it.entries @@ @,
                             !.printed = @ \o it.warning]
    /\ UNCHANGED <<reward_extra_infos_dict, pos, metrics, warnings, pc, done, call2>>
    /\ UNCHANGED <<pipeline, all_results, reward_extra_info>>

\* line 44: return metrics
StandaloneReturn ==
    /\ agg.pc = "loop"
    /\ reward_extra_info # <<>>
    /\ agg.pos = Len(reward_extra_info)
    /\ agg' = [agg EXCEPT !.pc = "returned"]
    /\ UNCHANGED <<reward_extra_infos_dict, pos, metrics, warnings, pc, done, call2>>
    /\ UNCHANGED <<pipeline, all_results, reward_extra_info>>

\* the mappings both functions take: lists of scalars and of lists
CopyInputs ==
    {d \in InputDicts :
        \A i \in 1..Len(d) : \A j \in 1..Len(d[i][2]) : d[i][2][j].shape # "tensor"}

\* compute_reward_metrics and its copy are called on the same mapping, the
\* copy after the original has returned
InitCopy ==
    /\ \E d \in CopyInputs : Enter(d) /\ reward_extra_info = d
    /\ warnings = <<>>
    /\ done = <<>>
    /\ call2 = NoCall
    /\ pipeline = "none"
    /\ all_results = <<>>
    /\ agg = [NoAgg EXCEPT !.pc = "loop"]

NextCopy ==
    \/ SkipEmpty /\ UNCHANGED others
    \/ SkipNonNumeric /\ UNCHANGED others
    \/ SkipNonFinite /\ UNCHANGED others
    \/ Summarize /\ UNCHANGED others
    \/ Except /\ UNCHANGED others
    \/ Return /\ UNCHANGED others
    \/ pc = "returned" /\ StandaloneEmpty
    \/ pc = "returned" /\ StandaloneStep
    \/ pc = "returned" /\ StandaloneReturn

SpecCopy == InitCopy /\ [][NextCopy]_vars

\* ------------------------------------- scoring and collecting a batch
\* most samples of one batch
MaxSamples == 3

\* what a scoring function returns for one sample: its items() in order, the
\* final score under "score" and the sub-rewards under their names; an
\* entry may be missing for a sample
Results ==
    {<<<<"score", Scalar(a)>>, <<"length_score", Scalar(b)>>>> \o w :
        a \in {Fin(1), Fin(6)}, b \in {Fin(1), Fin(6)},
        w \in {<<>>, <<<<"word_count", Scalar(Fin(6))>>>>}}

KeysIn(items) == {items[i][1] : i \in 1..Len(items)}

\* a collection that puts the newest value first
PrependTo(info, k, value) ==
    IF k \in KeysIn(info)
    THEN [i \in 1..Len(info) |->
             IF info[i][1] = k THEN <<k, <<value>> \o info[i][2]>> ELSE info[i]]
    ELSE Append(info, <<k, <<value>>>>)

\* reward_extra_info[key].append(value), the list created on first use
AppendTo(info, k, value) ==
    IF k \in KeysIn(info)
    THEN [i \in 1..Len(info) |->
             IF info[i][1] = k THEN <<k, Append(info[i][2], value)>> ELSE info[i]]
    ELSE Append(info, <<k, <<value>>>>)

RECURSIVE CollectAll(_, _)
\* test_reward_manager_integration.py lines 79-82: every entry is collected
CollectAll(info, items) ==
    IF items = <<>> THEN info
    ELSE CollectAll(AppendTo(info, Head(items)[1], Head(items)[2]), Tail(items))

RECURSIVE CollectSubRewards(_, _)
\* complete_test.py lines 132-134: every entry but "score" is collected
CollectSubRewards(info, items) ==
    IF items = <<>> THEN info
    ELSE CollectSubRewards(
             IF Head(items)[1] # "score"
             THEN AppendTo(info, Head(items)[1], Head(items)[2])
             ELSE info,
             Tail(items))

\* a loop of complete_test.py that collects the score with the sub-rewards
ScoreSampleWithScore ==
    /\ pipeline = "complete_test"
    /\ agg.pc = "idle"
    /\ Len(all_results) < MaxSamples
    /\ \E result \in Results :
           /\ all_results' = Append(all_results, result)
           /\ reward_extra_info' = CollectAll(reward_extra_info, result)
    /\ UNCHANGED <<reward_extra_infos_dict, pos, metrics, warnings, pc, done, call2>>
    /\ UNCHANGED <<pipeline, agg>>

\* complete_test.py lines 127-134: one sample is scored and its sub-rewards
\* are collected
ScoreSample ==
    /\ pipeline = "complete_test"
    /\ agg.pc = "idle"
    /\ Len(all_results) < MaxSamples
    /\ \E result \in Results :
           /\ all_results' = Append(all_results, result)
           /\ reward_extra_info' = CollectSubRewards(reward_extra_info, result)
    /\ UNCHANGED <<reward_extra_infos_dict, pos, metrics, warnings, pc, done, call2>>
    /\ UNCHANGED <<pipeline, agg>>

\* test_reward_manager_integration.py lines 64-82: one sample is scored and
\* all the entries of its result are collected
ScoreSampleIntegration ==
    /\ pipeline = "integration"
    /\ agg.pc = "idle"
    /\ Len(all_results) < MaxSamples
    /\ \E result \in Results :
           /\ all_results' = Append(all_results, result)
           /\ reward_extra_info' = CollectAll(reward_extra_info, result)
    /\ UNCHANGED <<reward_extra_infos_dict, pos, metrics, warnings, pc, done, call2>>
    /\ UNCHANGED <<pipeline, agg>>

\* complete_test.py line 150: the collected mapping is handed to the
\* standalone aggregator; test_reward_manager_integration.py line 94: the
\* inline aggregation starts with metrics = {}
StartAggregation ==
    /\ pipeline \in {"complete_test", "integration"}
    /\ agg.pc = "idle"
    /\ agg' = [agg EXCEPT !.pc = "loop"]
    /\ UNCHANGED <<reward_extra_infos_dict, pos, metrics, warnings, pc, done, call2>>
    /\ UNCHANGED <<pipeline, all_results, reward_extra_info>>

\* the float nearest to the square root of the rational num/den >= 0
\* (statistics._float_sqrt_of_frac)
FSqrtFrac(num, den) ==
    LET below == {r \in Representable : r * r * den <= num}
        above == {r \in Representable : r * r * den > num}
        lo == CHOOSE r \in below : \A t \in below : t <= r
    IN IF above = {} THEN Fin(lo)
       ELSE LET hi == CHOOSE r \in above : \A t \in above : r <= t
                mid2 == (lo + hi) * (lo + hi) * den
            IN IF 4 * num < mid2 THEN Fin(lo)
               ELSE IF 4 * num > mid2 THEN Fin(hi)
               ELSE IF (lo \div (hi - lo)) % 2 = 0 THEN Fin(lo) ELSE Fin(hi)

RECURSIVE ExactSum(_)
\* the exact sum of a list of finite numbers
ExactSum(xs) == IF xs = <<>> THEN 0 ELSE Head(xs).v + ExactSum(Tail(xs))

\* statistics.mean: the exact mean, rounded once
StatMean(xs) == FRound(ExactSum(xs), Len(xs))

\* statistics.stdev: the square root of the exact sample variance
StatStdev(xs) ==
    LET n == Len(xs)
        sum == ExactSum(xs)
        squares == ExactSum([i \in 1..n |-> Fin(xs[i].v * xs[i].v)])
    IN FSqrtFrac(n * squares - sum * sum, n * (n - 1))

\* test_reward_manager_integration.py lines 101-108 for one series of
\* scalars: a value that is no number makes statistics.mean raise before
\* anything is stored
InlineIteration(k, vals) ==
    LET xs == [i \in 1..Len(vals) |-> ObsScalar(vals[i])]
    IN IF \E i \in 1..Len(xs) : xs[i].k # "float"
       THEN [entries |-> <<>>, warning |-> <<[key |-> k, cause |-> "Skipping"]>>]
       ELSE [entries |->
                 LET base == (MetricKey(k, "mean") :> StatMean(xs))
                             @@ (MetricKey(k, "max") :> NpMax(xs))
                             @@ (MetricKey(k, "min") :> NpMin(xs))
                 IN IF Len(xs) > 1
                    THEN (MetricKey(k, "std") :> StatStdev(xs)) @@ base
                    ELSE base,
             warning |-> <<>>]

\* lines 96-98: if key == "score": continue
InlineSkipScore ==
    /\ pipeline = "integration"
    /\ agg.pc = "loop"
    /\ agg.pos < Len(reward_extra_info)
    /\ reward_extra_info[agg.pos + 1][1] = "score"
    /\ agg' = [agg EXCEPT !.pos = @ + 1]
    /\ UNCHANGED <<reward_extra_infos_dict, pos, metrics, warnings, pc, done, call2>>
    /\ UNCHANGED <<pipeline, all_results, reward_extra_info>>

\* lines 96-108: the statistics of one collected series
InlineStep ==
    /\ pipeline = "integration"
    /\ agg.pc = "loop"
    /\ agg.pos < Len(reward_extra_info)
    /\ reward_extra_info[agg.pos + 1][1] # "score"
    /\ LET item == reward_extra_info[agg.pos + 1]
           it == InlineIteration(item[1], item[2])
       IN agg' = [agg EXCEPT !.pos = @ + 1,
                             !.metrics = it.entries @@ @,
                             !.printed = @ \o it.warning]
    /\ UNCHANGED <<reward_extra_infos_dict, pos, metrics, warnings, pc, done, call2>>
    /\ UNCHANGED <<pipeline, all_results, reward_extra_info>>

\* line 110: the loop is over and the metrics are printed
InlineDone ==
    /\ pipeline = "integration"
    /\ agg.pc = "loop"
    /\ agg.pos = Len(reward_extra_info)
    /\ agg' = [agg EXCEPT !.pc = "returned"]
    /\ UNCHANGED <<reward_extra_infos_dict, pos, metrics, warnings, pc, done, call2>>
    /\ UNCHANGED <<pipeline, all_results, reward_extra_info>>

\* one of the two scripts starts; compute_reward_metrics is not called
InitPipeline ==
    /\ Enter(<<>>)
    /\ warnings = <<>>
    /\ done = <<>>
    /\ call2 = NoCall
    /\ pipeline \in {"complete_test", "integration"}
    /\ all_results = <<>>
    /\ reward_extra_info = <<>>
    /\ agg = NoAgg

NextPipeline ==
    \/ ScoreSample
    \/ ScoreSampleIntegration
    \/ StartAggregation
    \/ pipeline = "complete_test" /\ StandaloneEmpty
    \/ pipeline = "complete_test" /\ StandaloneStep
    \/ pipeline = "complete_test" /\ StandaloneReturn
    \/ InlineSkipScore
    \/ InlineStep
    \/ InlineDone

SpecPipeline == InitPipeline /\ [][NextPipeline]_vars

\* ------------------------------------------------------------ properties
ItemKey(i) == reward_extra_infos_dict[i][1]
ItemValues(i) == reward_extra_infos_dict[i][2]
Items == 1..NumItems
\* the items the loop has gone through
Consumed == 1..pos
Returned == pc = "returned"

ReportKey(k, stat) == <<"reward", k, stat>>
HasStat(k, stat) == ReportKey(k, stat) \in DOMAIN metrics
StatOf(k, stat) == metrics[ReportKey(k, stat)]
KeysOf(k) == {mk \in DOMAIN metrics : mk[2] = k}
\* the part of the report that belongs to signal k
ReportOf(k) == [mk \in KeysOf(k) |-> metrics[mk]]

AllOfShape(vals, shape) == \A i \in 1..Len(vals) : vals[i].shape = shape
\* every scalar of the series, inner scalars included
AllItems(vals) == Concat([i \in 1..Len(vals) |-> vals[i].items])
KindsOf(vals) == {AllItems(vals)[i].k : i \in 1..Len(AllItems(vals))}
FiniteItems(vals) == SelectSeq(AllItems(vals), IsFinite)

\* a non-empty flat series of finite numbers
ValidNumeric(vals) ==
    vals # <<>> /\ AllOfShape(vals, "scalar") /\ KindsOf(vals) = {"float"}
\* a series the aggregator cannot summarize: strings, booleans, mixed shapes
Failing(vals) ==
    \/ KindsOf(vals) \cap {"str", "bool"} # {}
    \/ \E i, j \in 1..Len(vals) : vals[i].shape # vals[j].shape

C2_NonNumericSkipped ==
    \A i \in Consumed :
        LET vals == ItemValues(i)
        IN (/\ AllOfShape(vals, "scalar") \/ AllOfShape(vals, "list")
            /\ KindsOf(vals) \cap {"str", "bool"} # {})
           => KeysOf(ItemKey(i)) = {}

\* uniformly numeric: floats, NaN and infinities only, in one shape
NumericSeries(vals) ==
    /\ vals # <<>>
    /\ \E shape \in {"scalar", "list", "tensor"} : AllOfShape(vals, shape)
    /\ KindsOf(vals) \subseteq {"float", "nan", "inf"}

\* the statistics are those of the finite elements, and there are none when no
\* element is finite
FiniteSubsetOnly ==
    \A i \in Consumed :
        LET vals == ItemValues(i)
        IN NumericSeries(vals) =>
               IF FiniteItems(vals) = <<>>
               THEN KeysOf(ItemKey(i)) = {}
               ELSE ReportOf(ItemKey(i)) = Entries(ItemKey(i), FiniteItems(vals))

\* C3: the statistics are computed over the finite elements only, a series
\* with no finite element gets no key, and no emitted value is NaN or
\* +/-Infinity.
C3_Sanitized ==
    /\ FiniteSubsetOnly
    /\ \A mk \in DOMAIN metrics : IsFinite(metrics[mk])

\* C4: every summarized signal has a count key, the number of finite
\* elements retained.
C4_CountEmitted ==
    \A i \in Consumed :
        HasStat(ItemKey(i), "mean") =>
            /\ HasStat(ItemKey(i), "count")
            /\ StatOf(ItemKey(i), "count") = Len(Retained(ItemValues(i)))

C6_MeanBetweenExtremes ==
    \A i \in Consumed :
        LET k == ItemKey(i)
        IN HasStat(k, "mean") =>
               /\ FLeq(StatOf(k, "min"), StatOf(k, "mean"))
               /\ FLeq(StatOf(k, "mean"), StatOf(k, "max"))

\* C7: an empty series leaves no key of its signal in the report, and the
\* valid numeric signals of a mapping that holds an empty series have the
\* statistics of their own series.
C7_EmptySkipped ==
    /\ \A i \in Consumed : ItemValues(i) = <<>> => KeysOf(ItemKey(i)) = {}
    /\ (Returned /\ \E i \in Items : ItemValues(i) = <<>>) =>
           \A j \in Items :
               ValidNumeric(ItemValues(j)) =>
                   ReportOf(ItemKey(j)) = Entries(ItemKey(j), AllItems(ItemValues(j)))

\* an empty series came first and the signal after it was summarized
C7_Witness ==
    /\ Returned
    /\ \E i, j \in Items :
           /\ i < j
           /\ ItemValues(i) = <<>>
           /\ KeysOf(ItemKey(i)) = {}
           /\ KeysOf(ItemKey(j)) # {}

\* a series of lists of numbers
NestedNumeric(vals) ==
    /\ vals # <<>>
    /\ AllOfShape(vals, "list")
    /\ KindsOf(vals) \subseteq {"float", "nan", "inf"}

Warned(k) == \E w \in 1..Len(warnings) : warnings[w].key = k

MixedShapes(vals) ==
    /\ vals # <<>>
    /\ \/ vals[1].shape = "tensor" /\ ~AllOfShape(vals, "tensor")
       \/ /\ vals[1].shape = "list"
          /\ \E i \in 1..Len(vals) :
                 vals[i].shape = "scalar" /\ vals[i].items[1].k # "str"
       \/ /\ vals[1].shape = "scalar"
          /\ \E i \in 1..Len(vals) : vals[i].shape = "list"

RECURSIVE MixedKeys(_)
\* the keys of the first n items whose samples have incompatible shapes
MixedKeys(n) ==
    IF n = 0 THEN <<>>
    ELSE IF MixedShapes(ItemValues(n))
         THEN Append(MixedKeys(n - 1), ItemKey(n))
         ELSE MixedKeys(n - 1)

C10_KeyForm ==
    \A mk \in DOMAIN metrics :
        /\ Len(mk) = 3
        /\ mk[1] = "reward"
        /\ mk[2] \in {ItemKey(i) : i \in Items}
        /\ mk[3] \in {"mean", "max", "min", "std", "count"}

\* a report with the four statistics of two signals
C10_Witness ==
    /\ Returned
    /\ Cardinality(DOMAIN metrics) = 8

\* C18: of the keys mean, max and min of a signal the report holds all three
\* or none, in every state of the call; a signal that was skipped or that
\* raised has none of them.
C18_AllOrNothing ==
    /\ \A k \in {ItemKey(i) : i \in Items} :
           /\ HasStat(k, "mean") <=> HasStat(k, "max")
           /\ HasStat(k, "max") <=> HasStat(k, "min")
    /\ \A i \in Consumed :
           (Retained(ItemValues(i)) = <<>> \/ Warned(ItemKey(i)))
               => KeysOf(ItemKey(i)) = {}

\* a signal that raised has no key and the signal beside it has all its keys
C18_Witness ==
    /\ Returned
    /\ \E i, j \in Items :
           /\ Warned(ItemKey(i))
           /\ KeysOf(ItemKey(i)) = {}
           /\ KeysOf(ItemKey(j)) =
                  {ReportKey(ItemKey(j), st) : st \in {"mean", "max", "min", "std"}}

\* the finite values observed for a signal, as float64
ObservedFinite(vals) ==
    {AsFloat(AllItems(vals)[j]) :
        j \in {n \in 1..Len(AllItems(vals)) : AllItems(vals)[n].k \in {"float", "bool"}}}

\* C19: the emitted max and min of a signal are finite values observed in
\* its flattened series, the greatest and the least of them; a NaN or an
\* infinity of the series is never emitted as an extreme.
C19_ExtremesObserved ==
    \A i \in Consumed :
        LET k == ItemKey(i)
            seen == ObservedFinite(ItemValues(i))
        IN HasStat(k, "max") \/ HasStat(k, "min") =>
               /\ StatOf(k, "max") \in seen
               /\ StatOf(k, "min") \in seen
               /\ \A x \in seen : FLeq(x, StatOf(k, "max")) /\ FLeq(StatOf(k, "min"), x)

\* a series with an infinity and two different finite values: the extremes
\* are the finite values
C19_Witness ==
    /\ Returned
    /\ \E i \in Items :
           /\ "inf" \in KindsOf(ItemValues(i))
           /\ HasStat(ItemKey(i), "max")
           /\ StatOf(ItemKey(i), "max") # StatOf(ItemKey(i), "min")

\* a scalar first and a list later, or a list first and a scalar later
Heterogeneous(vals) ==
    /\ vals # <<>>
    /\ \/ vals[1].shape = "scalar" /\ \E i \in 2..Len(vals) : vals[i].shape = "list"
       \/ vals[1].shape = "list" /\ \E i \in 2..Len(vals) : vals[i].shape = "scalar"

\* C15: the first sample alone selects the flattening: a series of scalars
\* and lists mixed is skipped or summarized over something else than its
\* scalars, the exception it raises is the one of the branch its first
\* sample selects, the call does not raise and the other signals of the
\* mapping are summarized.
C15_FirstSampleDecides ==
    /\ pc # "raised"
    /\ \A i \in Consumed :
           LET k == ItemKey(i)
               vals == ItemValues(i)
           IN Heterogeneous(vals) =>
                  /\ \/ KeysOf(k) = {}
                     \/ ReportOf(k) # Entries(k, FiniteItems(vals))
                  /\ \A w \in 1..Len(warnings) :
                         warnings[w].key = k =>
                             warnings[w].cause =
                                 IF vals[1].shape = "list" THEN "TypeError"
                                 ELSE "ValueError"
    /\ Returned =>
           \A j \in Items :
               ValidNumeric(ItemValues(j)) =>
                   ReportOf(ItemKey(j)) = Entries(ItemKey(j), AllItems(ItemValues(j)))

\* a series of scalars and lists mixed was skipped and the numeric signal
\* beside it was summarized
C15_Witness ==
    /\ Returned
    /\ \E i, j \in Items :
           /\ Heterogeneous(ItemValues(i))
           /\ KeysOf(ItemKey(i)) = {}
           /\ ValidNumeric(ItemValues(j))
           /\ HasStat(ItemKey(j), "mean")

\* the calls that have returned, the current one included, in order
Calls ==
    IF Returned
    THEN Append(done, [arg |-> reward_extra_infos_dict, report |-> metrics])
    ELSE done

\* C13: a call starts with an empty report of its own, its argument is the
\* same mapping from entry to return, and any two calls of a sequence that
\* were given equal mappings returned equal reports, whatever was aggregated
\* between them.
C13_Pure ==
    /\ [](/\ (pc = "loop" /\ pos = 0) => metrics = <<>>
          /\ \A a, b \in 1..Len(Calls) :
                 Calls[a].arg = Calls[b].arg => Calls[a].report = Calls[b].report)
    /\ [][pc = "loop" => reward_extra_infos_dict' = reward_extra_infos_dict]_vars

\* the first and the third call had the same mapping and the second another
\* one: the first and third reports are the same, the second is not
C13_Witness ==
    /\ Len(Calls) = 3
    /\ Calls[1].arg = Calls[3].arg
    /\ Calls[1].report = Calls[3].report
    /\ Calls[1].report # <<>>
    /\ Calls[2].report # <<>>
    /\ Calls[2].report # Calls[1].report

RECURSIVE ReportAfter(_, _)
\* the report of a call that runs alone on mapping d, after n items
ReportAfter(d, n) ==
    IF n = 0 THEN <<>>
    ELSE LET vals == d[n][2]
         IN (IF Retained(vals) = <<>> THEN <<>> ELSE Entries(d[n][1], Retained(vals)))
            @@ ReportAfter(d, n - 1)

\* C17: under every interleaving of the iterations of two calls, the report
\* of each call is at every step the one the call has when it runs alone,
\* so each returns the report it returns alone; no step changes the
\* argument of either call and no call ends in an error.
C17_ThreadSafe ==
    /\ [](/\ metrics = ReportAfter(reward_extra_infos_dict, pos)
          /\ call2.metrics = ReportAfter(call2.dict, call2.pos)
          /\ pc # "raised" /\ call2.pc # "raised")
    /\ [][/\ reward_extra_infos_dict' = reward_extra_infos_dict
          /\ call2'.dict = call2.dict]_vars

\* both calls are in the middle of their loops, each with the entries of its
\* own first signal and none of the other's
C17_Witness ==
    /\ pc = "loop" /\ pos = 1 /\ NumItems = 2
    /\ call2.pc = "loop" /\ call2.pos = 1 /\ Len(call2.dict) = 2
    /\ metrics # <<>>
    /\ call2.metrics # <<>>
    /\ DOMAIN metrics \cap DOMAIN call2.metrics = {}

\* C16: on every mapping the standalone copy returns the report
\* compute_reward_metrics returns: the same keys with the same values.
C16_SameReport ==
    (Returned /\ agg.pc = "returned") => agg.metrics = metrics

\* the series collected under key k
SeriesOf(info, k) == info[CHOOSE i \in 1..Len(info) : info[i][1] = k][2]
\* the value a result holds under key k
ValueIn(result, k) == result[CHOOSE i \in 1..Len(result) : result[i][1] = k][2]
\* the keys of the sub-rewards returned so far
SubRewardKeys ==
    UNION {KeysIn(all_results[n]) : n \in 1..Len(all_results)} \ {"score"}

SeriesSoFar(info, k) == IF k \in KeysIn(info) THEN SeriesOf(info, k) ELSE <<>>

\* C12: after k samples, a series whose key every sample returned has k
\* elements, the i-th the value returned for the i-th sample; and scoring one
\* sample appends its value to the series of each key it returned, creates
\* no other series and changes no other series.
C12_CollectedInOrder ==
    /\ [](\A k \in KeysIn(reward_extra_info) :
              (\A n \in 1..Len(all_results) : k \in KeysIn(all_results[n])) =>
                  SeriesOf(reward_extra_info, k) =
                      [n \in 1..Len(all_results) |-> ValueIn(all_results[n], k)])
    /\ [][all_results' # all_results =>
              LET result == all_results'[Len(all_results')]
              IN /\ all_results' = Append(all_results, result)
                 /\ KeysIn(reward_extra_info') \subseteq
                        KeysIn(reward_extra_info) \cup KeysIn(result)
                 /\ \A k \in KeysIn(reward_extra_info') :
                        SeriesOf(reward_extra_info', k) =
                            IF k \in KeysIn(result)
                            THEN Append(SeriesSoFar(reward_extra_info, k),
                                        ValueIn(result, k))
                            ELSE SeriesOf(reward_extra_info, k)]_vars

\* three samples: the key of every sample has its three values in sample
\* order, the key one sample left out has two
C12_Witness ==
    /\ Len(all_results) = 3
    /\ SeriesOf(reward_extra_info, "length_score")
           = <<Scalar(Fin(1)), Scalar(Fin(6)), Scalar(Fin(6))>>
    /\ ValueIn(all_results[1], "length_score") = Scalar(Fin(1))
    /\ "word_count" \in KeysIn(reward_extra_info)
    /\ Len(SeriesOf(reward_extra_info, "word_count")) = 2

\* C14: the report of {"length_score": [0.8, 0.9, 0.7, 0.85]} has the max
\* and the min of the series (its second and third values), a mean, a std
\* and a count key whose value is 4.  (The values 0.8125 and 0.0808 have no
\* counterpart in the model's number format.)
C14_Scenario ==
    \A i \in Consumed :
        (ItemKey(i) = "length_score" /\ ItemValues(i) = ScenarioSeries) =>
            /\ HasStat("length_score", "mean")
            /\ HasStat("length_score", "max")
            /\ StatOf("length_score", "max") = ObsScalar(ScenarioSeries[2])
            /\ HasStat("length_score", "min")
            /\ StatOf("length_score", "min") = ObsScalar(ScenarioSeries[3])
            /\ HasStat("length_score", "std")
            /\ HasStat("length_score", "count")
            /\ StatOf("length_score", "count") = 4

====
